---- MODULE Spec2Model ----
(***************************************************************************)
(* State-machine model of brightray's libnotify back end                   *)
(* (browser/linux/libnotify_notification.cc): the library loader's         *)
(* Initialize, the capability queries, and the life cycle of one           *)
(* LibnotifyNotification with the native handles it creates.               *)
(***************************************************************************)
EXTENDS Integers, Sequences, FiniteSets, TLC

\* Bound: number of Show calls made on the notification (each creates a handle).
MaxShows == 2

\* Candidate library names, in the order Initialize tries them.
Candidates == <<"libnotify.so.4", "libnotify.so.1", "libnotify.so">>

\* Capability sets the service may advertise.
CapSets ==
  { {}, {"Actions"}, {"append"},
    {"actions", "x-canonical-append"},
    {"actions", "append", "x-canonical-append"} }

Titles == {"Build complete"}
Bodies == {"3 tests failed"}
Tags == {"", "ci-status"}
\* Icon bitmaps, by width in pixels (0: a bitmap that draws nothing).
Icons == {0, 64}

VARIABLES
  loadCalls,          \* Load calls made by Initialize: sequence of [lib, ok]
  isInittedCalls,     \* results of notify_is_initted calls made by Initialize
  initCalls,          \* results of notify_init calls made by Initialize
  initResult,         \* "none" before Initialize, then "true" or "false"
  envFlag,            \* ELECTRON_USE_UBUNTU_NOTIFIER is set in the environment
  serverCaps,         \* capabilities the service advertises right now
  notify_has_result,  \* static flag of NotifierSupportsActions
  notify_result,      \* static cache of NotifierSupportsActions
  supportsRet,        \* last value returned by NotifierSupportsActions, or "none"
  obj,                \* the notification object: "none", "alive", "deleted"
  state,              \* life-cycle state of the notification
  notification_,      \* the member notification_: a handle index, 0 for nullptr
  handles,            \* native handles created so far, in creation order
  config,             \* what the last Show set on the handle it created
  lastShow,           \* arguments of the last Show and the capabilities it saw
  closeRequested,     \* the service accepted a close request for notification_
  signals,            \* delegate signals delivered so far
  criticals,          \* a GLib call was given a null handle and refused it
  crashed             \* the process died

vars == << loadCalls, isInittedCalls, initCalls, initResult, envFlag,
           serverCaps, notify_has_result, notify_result,
           supportsRet, obj, state, notification_, handles, config,
           lastShow, closeRequested, signals, criticals, crashed >>

loaderVars == << loadCalls, isInittedCalls, initCalls, initResult >>
capVars == << envFlag, serverCaps >>
staticVars == << notify_has_result, notify_result >>
objVars == << obj, state, notification_, handles, config, lastShow,
             closeRequested, signals, criticals, crashed >>

----------------------------------------------------------------------------
\* Capability negotiation

\* The capability names in lower case.
Lower(name) == IF name = "Actions" THEN "actions" ELSE name

\* A comparison that ignores case, as g_ascii_strcasecmp does.
g_strcmp0_NoCase(a, b) == IF Lower(a) = Lower(b) THEN 0 ELSE 1

\* g_strcmp0: 0 when the two strings are the same byte sequence.
g_strcmp0(a, b) == IF a = b THEN 0 ELSE 1

\* HasCapability: is the name an element of the list the service returns now.
HasCapability(caps, capability) ==
  \E c \in caps : g_strcmp0(c, capability) = 0

\* NotifierSupportsActions without the test of the environment variable.
NotifierSupportsActions_NoOverride(env, has_result, result, caps) ==
  IF has_result THEN [ret |-> result, notify_result |-> result]
  ELSE [ret |-> HasCapability(caps, "actions"),
        notify_result |-> HasCapability(caps, "actions")]

\* NotifierSupportsActions reusing the cached value once it was true.
NotifierSupportsActions_Memo(env, has_result, result, caps) ==
  IF env THEN [ret |-> FALSE, notify_result |-> result]
  ELSE IF has_result \/ result THEN [ret |-> result, notify_result |-> result]
  ELSE [ret |-> HasCapability(caps, "actions"),
        notify_result |-> HasCapability(caps, "actions")]

\* NotifierSupportsActions: the value returned and the new static cache.
NotifierSupportsActions(env, has_result, result, caps) ==
  IF env THEN [ret |-> FALSE, notify_result |-> result]
  ELSE IF has_result THEN [ret |-> result, notify_result |-> result]
  ELSE [ret |-> HasCapability(caps, "actions"),
        notify_result |-> HasCapability(caps, "actions")]

----------------------------------------------------------------------------
\* Library loader

\* The Load calls of a chain that does not short-circuit: every candidate.
LoadUntilBound_All(installed, i) ==
  [ k \in 1..Len(Candidates) |->
      [lib |-> Candidates[k], ok |-> Candidates[k] \in installed] ]

RECURSIVE LoadUntilBound(_, _)
\* The Load calls of the && chain: candidates from index i on, stopping at the
\* first that binds. installed is the set of libraries that can be bound.
LoadUntilBound(installed, i) ==
  IF i > Len(Candidates) THEN << >>
  ELSE IF Candidates[i] \in installed
       THEN << [lib |-> Candidates[i], ok |-> TRUE] >>
       ELSE << [lib |-> Candidates[i], ok |-> FALSE] >>
            \o LoadUntilBound(installed, i + 1)

\* The value of the negated && chain's operand: some Load call returned true.
Bound(calls) == \E i \in 1..Len(calls) : calls[i].ok

\* Initialize calling notify_init whatever notify_is_initted returned.
InitNeeded_Always(initted) == TRUE

\* Initialize calls notify_init only when notify_is_initted returned false.
InitNeeded(initted) == ~initted

\* LibnotifyNotification::Initialize
Initialize(installed, initted, initOk) ==
  /\ initResult = "none"
  /\ ~crashed
  /\ LET calls == LoadUntilBound(installed, 1) IN
       /\ loadCalls' = calls
       /\ IF ~Bound(calls)
          THEN /\ initResult' = "false"
               /\ UNCHANGED << isInittedCalls, initCalls >>
          ELSE /\ isInittedCalls' = Append(isInittedCalls, initted)
               /\ IF InitNeeded(initted)
                  THEN /\ initCalls' = Append(initCalls, initOk)
                       /\ initResult' = IF initOk THEN "true" ELSE "false"
                  ELSE /\ initCalls' = initCalls
                       /\ initResult' = "true"
  /\ UNCHANGED << capVars, staticVars, supportsRet, objVars >>

----------------------------------------------------------------------------
\* Native handles

\* SkBitmap::drawsNothing
drawsNothing(icon) == icon = 0

\* g_quark_from_string: the interned identity of a string, never 0.
QuarkTable == << "ci-status", "chat" >>

g_quark_from_string(tag) ==
  CHOOSE q \in 1..Len(QuarkTable) : QuarkTable[q] = tag

\* Two independent tests instead of if / else if: both hints can be set.
AppendHint_Both(caps) ==
  (IF HasCapability(caps, "append") THEN {"append"} ELSE {})
  \cup (IF HasCapability(caps, "x-canonical-append")
        THEN {"x-canonical-append"} ELSE {})

\* The hint Show sets for append presentation: at most one of the two names.
AppendHint(caps) ==
  IF HasCapability(caps, "append") THEN {"append"}
  ELSE IF HasCapability(caps, "x-canonical-append") THEN {"x-canonical-append"}
  ELSE {}

\* Show connecting the closed handler only after it submitted the handle.
ShowCalls_ConnectLate(supports, tag, icon, caps) ==
  << "notify_notification_new" >>
  \o (IF supports THEN << "notify_notification_add_action" >> ELSE << >>)
  \o (IF ~drawsNothing(icon)
      THEN << "notify_notification_set_image_from_pixbuf",
              "notify_notification_set_timeout" >>
      ELSE << >>)
  \o (IF tag # "" THEN << "g_object_set" >> ELSE << >>)
  \o (IF AppendHint(caps) # {}
      THEN << "notify_notification_set_hint_string" >> ELSE << >>)
  \o << "notify_notification_show", "g_signal_connect" >>

\* The native calls Show makes on the handle, in program order, up to the
\* submission.
ShowCalls(supports, tag, icon, caps) ==
  << "notify_notification_new", "g_signal_connect" >>
  \o (IF supports THEN << "notify_notification_add_action" >> ELSE << >>)
  \o (IF ~drawsNothing(icon)
      THEN << "notify_notification_set_image_from_pixbuf",
              "notify_notification_set_timeout" >>
      ELSE << >>)
  \o (IF tag # "" THEN << "g_object_set" >> ELSE << >>)
  \o (IF AppendHint(caps) # {}
      THEN << "notify_notification_set_hint_string" >> ELSE << >>)
  \o << "notify_notification_show" >>

\* Show setting the default expiry outside the test of the icon.
ShowConfig_TimeoutAlways(title, body, tag, icon, silent, supports, caps) ==
  [ summary |-> title,
    body    |-> body,
    action  |-> supports,
    image   |-> IF drawsNothing(icon) THEN 0 ELSE icon,
    timeout |-> "NOTIFY_EXPIRES_DEFAULT",
    id      |-> IF tag # "" THEN g_quark_from_string(tag) ELSE 0,
    hints   |-> AppendHint(caps),
    calls   |-> ShowCalls(supports, tag, icon, caps) ]

\* Show reading the silent flag: a hint that suppresses the sound.
ShowConfig_Silent(title, body, tag, icon, silent, supports, caps) ==
  [ summary |-> title,
    body    |-> body,
    action  |-> supports,
    image   |-> IF drawsNothing(icon) THEN 0 ELSE icon,
    timeout |-> IF drawsNothing(icon) THEN "unset" ELSE "NOTIFY_EXPIRES_DEFAULT",
    id      |-> IF tag # "" THEN g_quark_from_string(tag) ELSE 0,
    hints   |-> AppendHint(caps)
                \cup (IF silent THEN {"suppress-sound"} ELSE {}),
    calls   |-> ShowCalls(supports, tag, icon, caps) ]

\* What Show sets on the handle it creates, before it submits the handle.
\* silent is a parameter of Show that the body never reads.
ShowConfig(title, body, tag, icon, silent, supports, caps) ==
  [ summary |-> title,
    body    |-> body,
    action  |-> supports,
    image   |-> IF drawsNothing(icon) THEN 0 ELSE icon,
    timeout |-> IF drawsNothing(icon) THEN "unset" ELSE "NOTIFY_EXPIRES_DEFAULT",
    id      |-> IF tag # "" THEN g_quark_from_string(tag) ELSE 0,
    hints   |-> AppendHint(caps),
    calls   |-> ShowCalls(supports, tag, icon, caps) ]

\* No Show was made yet.
NoConfig ==
  [ summary |-> "", body |-> "", action |-> FALSE, image |-> 0,
    timeout |-> "unset", id |-> 0, hints |-> {}, calls |-> << >> ]

\* No Show was made yet.
NoShow ==
  [ title |-> "", body |-> "", tag |-> "", icon |-> 0, silent |-> FALSE,
    caps |-> {} ]

\* The delegate call that ends Show, made after notify_notification_show
\* returned: NotificationFailed on an error, NotificationDisplayed otherwise.
ShowDelegateCall(error) ==
  IF error THEN "NotificationFailed" ELSE "NotificationDisplayed"

\* The handle as Show leaves it after notify_notification_show returned:
\* one reference, held by notification_; the closed signal connected to this;
\* the action callback registered or not; shown by the service or refused.
ShownHandle(supports, submitOk) ==
  [ refs       |-> 1,
    closedConn |-> TRUE,
    action     |-> supports,
    srv        |-> IF submitOk THEN "shown" ELSE "none" ]

\* A destructor that disconnects the callbacks and forgets g_object_unref.
Destructor_NoUnref(hs, n) ==
  IF n = 0 THEN hs
  ELSE [hs EXCEPT ![n].closedConn = FALSE]

\* ~LibnotifyNotification on the handle n that notification_ holds:
\* g_signal_handlers_disconnect_by_data and g_object_unref. Both refuse a
\* null handle and change nothing.
Destructor(hs, n) ==
  IF n = 0 THEN hs
  ELSE [hs EXCEPT ![n].closedConn = FALSE, ![n].refs = @ - 1]

\* The object is deleted: hs are the handles at that moment, n is notification_.
Deleted(hs, n) ==
  /\ obj' = "deleted"
  /\ handles' = Destructor(hs, n)
  /\ criticals' = (criticals \/ n = 0)

----------------------------------------------------------------------------
\* Notification base class: terminal transitions

\* Notification::Destroy: local teardown of the object.
Destroy(hs, n) ==
  /\ state' = "Destroyed"
  /\ signals' = signals
  /\ Deleted(hs, n)

\* Notification::NotificationFailed
NotificationFailed(hs, n) ==
  /\ state' = "Failed"
  /\ signals' = Append(signals, "failed")
  /\ Deleted(hs, n)

\* Notification::NotificationDismissed
NotificationDismissed(hs, n) ==
  /\ state' = "Dismissed"
  /\ signals' = Append(signals, "dismissed")
  /\ Deleted(hs, n)

\* Notification::NotificationClicked
NotificationClicked(hs, n) ==
  /\ state' = "Clicked"
  /\ signals' = Append(signals, "clicked")
  /\ Deleted(hs, n)

\* A callback of a handle runs on an object that was already deleted.
UseAfterFree(hs, sig) ==
  /\ handles' = hs
  /\ UNCHANGED << obj, state, criticals >>
  /\ \/ signals' = Append(signals, sig) /\ crashed' = crashed
     \/ signals' = signals /\ crashed' = crashed
     \/ signals' = signals /\ crashed' = TRUE

----------------------------------------------------------------------------
\* Operations on the notification

\* Show without the delegate call on the success path.
ShowResult_NoDisplayed(hs, n, error) ==
  IF error
  THEN NotificationFailed(hs, n)
  ELSE /\ signals' = signals
       /\ state' = "Displayed"
       /\ handles' = hs
       /\ UNCHANGED << obj, criticals >>

\* Show without the return on the error path: it falls through to the
\* delegate call of the success path.
ShowResult_NoReturn(hs, n, error) ==
  IF error
  THEN /\ state' = "Failed"
       /\ signals' = signals \o << "failed", "displayed" >>
       /\ Deleted(hs, n)
  ELSE /\ signals' = Append(signals, "displayed")
       /\ state' = "Displayed"
       /\ handles' = hs
       /\ UNCHANGED << obj, criticals >>

\* Show after notify_notification_show returned: on an error the notification
\* fails and Show returns, otherwise the delegate is told it is displayed.
ShowResult(hs, n, error) ==
  IF error
  THEN NotificationFailed(hs, n)
  ELSE /\ signals' = Append(signals, "displayed")
       /\ state' = "Displayed"
       /\ handles' = hs
       /\ UNCHANGED << obj, criticals >>

\* Dismiss destroying the notification whatever the close request returned.
DismissResult_Always(error) == Destroy(handles, notification_)

\* Dismiss after notify_notification_close returned: on an error the
\* notification is destroyed, otherwise nothing is done.
DismissResult(error) ==
  IF error
  THEN Destroy(handles, notification_)
  ELSE UNCHANGED << obj, state, handles, signals, criticals >>

\* Notification::Create
Create ==
  /\ initResult = "true"
  /\ ~crashed
  /\ obj = "none"
  /\ obj' = "alive"
  /\ state' = "Created"
  /\ notification_' = 0
  /\ UNCHANGED << loaderVars, capVars, staticVars, supportsRet,
                  handles, config, lastShow, closeRequested, signals,
                  criticals, crashed >>

\* LibnotifyNotification::Show
Show(title, body, tag, icon, silent, submitOk) ==
  /\ obj = "alive"
  /\ ~crashed
  /\ Len(handles) < MaxShows
  /\ LET sup == NotifierSupportsActions(envFlag, notify_has_result,
                                        notify_result, serverCaps)
         n   == Len(handles) + 1
         hs  == Append(handles, ShownHandle(sup.ret, submitOk))
     IN /\ notification_' = n
        /\ config' = [ ShowConfig(title, body, tag, icon, silent,
                                  sup.ret, serverCaps)
                       EXCEPT !.calls = Append(@, ShowDelegateCall(~submitOk)) ]
        /\ lastShow' = [ title |-> title, body |-> body, tag |-> tag,
                         icon |-> icon, silent |-> silent,
                         caps |-> serverCaps ]
        /\ closeRequested' = FALSE
        /\ notify_result' = sup.notify_result
        /\ supportsRet' = IF sup.ret THEN "true" ELSE "false"
        /\ ShowResult(hs, n, ~submitOk)
  /\ UNCHANGED << loaderVars, capVars, notify_has_result, crashed >>

\* LibnotifyNotification::Dismiss
Dismiss(closeOk) ==
  /\ obj = "alive"
  /\ ~crashed
  /\ IF notification_ = 0
     THEN /\ criticals' = TRUE
          /\ UNCHANGED << obj, state, handles, signals, closeRequested >>
     ELSE /\ closeRequested' = (closeRequested \/ closeOk)
          /\ DismissResult(~closeOk)
  /\ UNCHANGED << loaderVars, capVars, staticVars, supportsRet,
                  notification_, config, lastShow, crashed >>

\* The closed signal of handle h can still reach OnNotificationClosedThunk: the
\* handle is not finalized, the handler is connected and the service shows it.
ClosedDeliverable(h) ==
  /\ h \in 1..Len(handles)
  /\ handles[h].refs > 0
  /\ handles[h].closedConn
  /\ handles[h].srv \in {"shown", "invoked"}

\* The action of handle h can still reach OnNotificationViewThunk: the handle
\* is not finalized, the action was added and the service shows the handle.
ActionDeliverable(h) ==
  /\ h \in 1..Len(handles)
  /\ handles[h].refs > 0
  /\ handles[h].action
  /\ handles[h].srv = "shown"

\* The service reports handle h closed: OnNotificationClosedThunk.
OnNotificationClosed(h) ==
  /\ ~crashed
  /\ ClosedDeliverable(h)
  /\ LET hs == [handles EXCEPT ![h].srv = "closed"]
     IN IF obj = "alive"
        THEN NotificationDismissed(hs, notification_) /\ crashed' = crashed
        ELSE UseAfterFree(hs, "dismissed")
  /\ UNCHANGED << loaderVars, capVars, staticVars, supportsRet,
                  notification_, config, lastShow, closeRequested >>

\* The service reports the action of handle h invoked: OnNotificationViewThunk.
OnNotificationView(h) ==
  /\ ~crashed
  /\ ActionDeliverable(h)
  /\ LET hs == [handles EXCEPT ![h].srv = "invoked"]
     IN IF obj = "alive"
        THEN NotificationClicked(hs, notification_) /\ crashed' = crashed
        ELSE UseAfterFree(hs, "clicked")
  /\ UNCHANGED << loaderVars, capVars, staticVars, supportsRet,
                  notification_, config, lastShow, closeRequested >>

\* The owner deletes the notification: ~LibnotifyNotification.
Delete ==
  /\ obj = "alive"
  /\ ~crashed
  /\ Deleted(handles, notification_)
  /\ UNCHANGED << loaderVars, capVars, staticVars, supportsRet,
                  state, notification_, config, lastShow, closeRequested,
                  signals, crashed >>

\* The service starts to advertise another capability set.
ServerCapsChange(caps) ==
  /\ ~crashed
  /\ initResult = "true"
  /\ caps # serverCaps
  /\ serverCaps' = caps
  /\ UNCHANGED << loaderVars, envFlag, staticVars, supportsRet, objVars >>

----------------------------------------------------------------------------
\* The environment, the statics and the notification at process start.
InitRest ==
  /\ envFlag \in BOOLEAN
  /\ serverCaps \in CapSets
  /\ notify_has_result = FALSE
  /\ notify_result = FALSE
  /\ supportsRet = "none"
  /\ obj = "none"
  /\ state = "None"
  /\ notification_ = 0
  /\ handles = << >>
  /\ config = NoConfig
  /\ lastShow = NoShow
  /\ closeRequested = FALSE
  /\ signals = << >>
  /\ criticals = FALSE
  /\ crashed = FALSE

\* Process start: libnotify_loader_ is constructed, Initialize not yet called.
InitLoader ==
  /\ loadCalls = << >>
  /\ isInittedCalls = << >>
  /\ initCalls = << >>
  /\ initResult = "none"
  /\ InitRest

NextLoader ==
  \E installed \in SUBSET {Candidates[i] : i \in 1..Len(Candidates)},
     initted \in BOOLEAN, initOk \in BOOLEAN :
    Initialize(installed, initted, initOk)

\* The loader: the one Initialize call made at startup.
SpecLoader == InitLoader /\ [][NextLoader]_vars

\* The notifications are used after the Initialize call of startup returned
\* true: here it bound the first candidate and initialized the service.
Init ==
  /\ loadCalls = << [lib |-> Candidates[1], ok |-> TRUE] >>
  /\ isInittedCalls = << FALSE >>
  /\ initCalls = << TRUE >>
  /\ initResult = "true"
  /\ InitRest

Next ==
  \/ Create
  \/ \E title \in Titles, body \in Bodies, tag \in Tags, icon \in Icons,
        silent \in BOOLEAN, submitOk \in BOOLEAN :
       Show(title, body, tag, icon, silent, submitOk)
  \/ \E closeOk \in BOOLEAN : Dismiss(closeOk)
  \/ \E h \in 1..MaxShows : OnNotificationClosed(h)
  \/ \E h \in 1..MaxShows : OnNotificationView(h)
  \/ Delete
  \/ \E caps \in CapSets : ServerCapsChange(caps)

\* The life cycle of one notification.
Spec == Init /\ [][Next]_vars

----------------------------------------------------------------------------
\* Properties

\* Number of times the delegate received the signal sig.
Count(sig) == Cardinality({ i \in 1..Len(signals) : signals[i] = sig })

\* This step is a Show call, and its submission succeeded / was refused.
ShowStep == Len(handles') = Len(handles) + 1
ShowSucceeded == ShowStep /\ handles'[Len(handles')].srv = "shown"
ShowRefused == ShowStep /\ handles'[Len(handles')].srv = "none"

\* This step is a Dismiss call on a shown notification whose close request the
\* service accepted.
DismissAccepted ==
  /\ obj = "alive" /\ notification_ # 0
  /\ ~closeRequested /\ closeRequested'

\* This step is the closed callback of handle h.
ClosedStep(h) ==
  /\ h \in 1..Len(handles)
  /\ Len(handles') = Len(handles)
  /\ handles[h].srv # "closed"
  /\ handles'[h].srv = "closed"

\* C1: a Show whose native submission succeeds gives the delegate exactly one
\* "displayed" signal and no "failed" signal.
C1_ShowSuccessDisplayedOnce ==
  [][ShowSucceeded => signals' = Append(signals, "displayed")]_vars

C1_Witness ==
  /\ obj = "alive" /\ state = "Displayed"
  /\ Len(handles) = 1 /\ handles[1].srv = "shown"
  /\ signals = << "displayed" >>

\* C2: a Show whose native submission reports an error gives the delegate
\* exactly one "failed" signal and no "displayed" signal; once the notification
\* has failed no "displayed" signal is emitted and no handle is submitted again.
C2_ShowErrorFailedOnce ==
  [][ /\ ShowRefused => signals' = Append(signals, "failed") /\ state' = "Failed"
      /\ state = "Failed" =>
           /\ state' = "Failed"
           /\ Len(handles') = Len(handles)
           /\ Len(signals') > Len(signals) =>
                signals'[Len(signals')] # "displayed" ]_vars

C2_Witness ==
  /\ state = "Failed" /\ obj = "deleted"
  /\ Len(handles) = 1 /\ handles[1].srv = "none"
  /\ signals = << "failed" >>

\* C3: once Show was called the delegate has received exactly one signal among
\* displayed and failed, and it receives at most one terminal signal among
\* dismissed, clicked and the silent destroy; never both clicked and dismissed.
C3_OneOutcomeOneTerminal ==
  /\ Len(handles) > 0 => Count("displayed") + Count("failed") = 1
  /\ Count("dismissed") + Count("clicked")
       + (IF state = "Destroyed" THEN 1 ELSE 0) <= 1
  /\ ~(Count("clicked") > 0 /\ Count("dismissed") > 0)

\* C4: notification_ holds an unreleased native handle if and only if Show has
\* been called and the notification has not been destroyed.
C4_HandleIffShownAndAlive ==
  (notification_ # 0 /\ handles[notification_].refs > 0)
    <=> (Len(handles) > 0 /\ obj # "deleted")

C4_Witness ==
  /\ obj = "deleted" /\ Len(handles) > 0
  /\ notification_ # 0 /\ handles[notification_].refs = 0

\* C5: a Dismiss whose close request succeeds emits no delegate signal and makes
\* no local state transition; the closed callback that follows moves the
\* notification to Dismissed and emits exactly one "dismissed" signal.
C5_DismissSuccessWaitsForClosed ==
  [][ /\ DismissAccepted =>
           /\ signals' = signals /\ state' = state
           /\ obj' = obj /\ handles' = handles
      /\ (obj = "alive" /\ closeRequested /\ ClosedStep(notification_)) =>
           /\ state' = "Dismissed"
           /\ signals' = Append(signals, "dismissed") ]_vars

C5_Witness ==
  /\ closeRequested /\ state = "Dismissed"
  /\ Len(handles) = 1 /\ handles[1].srv = "closed"
  /\ signals = << "displayed", "dismissed" >>

\* C6: a Dismiss whose close request reports an error destroys the notification
\* within the call, and no "dismissed" signal is emitted for it then or later.
C6_DismissErrorDestroysSilently ==
  state = "Destroyed" => obj = "deleted" /\ Count("dismissed") = 0

\* C7: once the notification is Failed no native handle remains active for it:
\* none is held and no closed or action callback can deliver a signal.
C7_FailedLeavesNoActiveHandle ==
  state = "Failed" =>
    \A h \in 1..Len(handles) :
      /\ handles[h].refs = 0
      /\ ~ClosedDeliverable(h)
      /\ ~ActionDeliverable(h)

\* C8: Initialize tries libnotify.so.4, libnotify.so.1, libnotify.so in that
\* order and makes no Load call after one that bound.
C8_LoadStopsAtFirstBind ==
  initResult # "none" =>
    /\ Len(loadCalls) \in 1..Len(Candidates)
    /\ \A i \in 1..Len(loadCalls) : loadCalls[i].lib = Candidates[i]
    /\ \A i \in 1..(Len(loadCalls) - 1) : ~loadCalls[i].ok
    /\ Len(loadCalls) < Len(Candidates) => loadCalls[Len(loadCalls)].ok

C8_Witness ==
  /\ initResult = "true"
  /\ Len(loadCalls) = 1 /\ loadCalls[1].ok

\* C9: Initialize returns false exactly when no candidate bound, or one bound,
\* the service was not initialized and notify_init failed; notify_init is called
\* only after a bind and only when notify_is_initted returned false.
C9_InitializeFailureCases ==
  initResult # "none" =>
    /\ (initResult = "false") <=>
         \/ ~Bound(loadCalls)
         \/ /\ Bound(loadCalls)
            /\ isInittedCalls = << FALSE >>
            /\ initCalls = << FALSE >>
    /\ initCalls # << >> =>
         /\ Bound(loadCalls)
         /\ isInittedCalls = << FALSE >>
         /\ Len(initCalls) = 1
    /\ ~Bound(loadCalls) => initCalls = << >> /\ isInittedCalls = << >>

C9_Witness ==
  /\ initResult = "false"
  /\ Bound(loadCalls)
  /\ isInittedCalls = << FALSE >> /\ initCalls = << FALSE >>

\* C10: NotifierSupportsActions returns false when the override variable is
\* set, whatever the service advertises, and HasCapability("actions") otherwise.
C10_OverrideDisablesActions ==
  [][ShowStep =>
       supportsRet' = IF envFlag THEN "false"
                      ELSE IF HasCapability(serverCaps, "actions") THEN "true"
                      ELSE "false"]_vars

\* The hint x-canonical-append tells that the last Show saw the capability set
\* {"actions", "x-canonical-append"}: the service advertised "actions" then.
C10_Witness ==
  /\ envFlag
  /\ Len(handles) > 0 /\ config.hints = {"x-canonical-append"}
  /\ supportsRet = "false" /\ ~config.action

\* C11: HasCapability(name) is true exactly when name is, with the same case,
\* an element of the set the service returns at that call, and false for the
\* empty set. Show makes the calls: "actions" (unless the override is set),
\* "append", and "x-canonical-append" when "append" was not found.
C11_HasCapabilityExactMember ==
  [][ShowStep =>
       /\ ~envFlag => (supportsRet' = "true" <=> "actions" \in serverCaps)
       /\ "append" \in config'.hints <=> "append" \in serverCaps
       /\ "append" \notin serverCaps =>
            ("x-canonical-append" \in config'.hints
               <=> "x-canonical-append" \in serverCaps)
       /\ serverCaps = {} =>
            config'.hints = {} /\ supportsRet' = "false" ]_vars

\* The service advertised "Actions", which is not "actions".
C11_Witness ==
  /\ ~envFlag /\ Len(handles) > 0
  /\ lastShow.caps = {"Actions"}
  /\ supportsRet = "false" /\ ~config.action

\* This step delivers the signal sig to the delegate.
SignalStep(sig) ==
  /\ Len(signals') = Len(signals) + 1
  /\ signals'[Len(signals')] = sig

\* Number of times the last Show made the native call name.
CallCount(calls, name) ==
  Cardinality({ i \in 1..Len(calls) : calls[i] = name })

\* C12: Show registers exactly one action when NotifierSupportsActions is true
\* and none otherwise, and a "clicked" signal is delivered only for a
\* notification in Displayed whose Show registered the action: never for one
\* shown with the override set or without the "actions" capability.
C12_ClickedOnlyWithRegisteredAction ==
  [][ /\ ShowStep =>
           /\ handles'[Len(handles')].action <=> supportsRet' = "true"
           /\ CallCount(config'.calls, "notify_notification_add_action")
                = IF supportsRet' = "true" THEN 1 ELSE 0
      /\ SignalStep("clicked") =>
           /\ state = "Displayed"
           /\ config.action
           /\ ~envFlag /\ "actions" \in lastShow.caps ]_vars

\* C13: destruction is safe from Created and from every terminal state: it
\* disconnects every callback registered for the notification and releases the
\* native handle, so that afterwards no closed or action callback can emit a
\* delegate signal.
C13_DestructionDisconnectsAndReleases ==
  obj = "deleted" =>
    /\ ~crashed
    /\ \A h \in 1..Len(handles) :
         /\ handles[h].refs = 0
         /\ ~handles[h].closedConn
         /\ ~ClosedDeliverable(h)
         /\ ~ActionDeliverable(h)

\* C14: every closed callback delivered for a handle of the notification moves
\* it to Dismissed and emits a "dismissed" signal, whatever closed the handle and
\* whatever state the notification is in.
C14_ClosedAlwaysDismisses ==
  [][ \A h \in 1..MaxShows :
        ClosedStep(h) =>
          /\ state' = "Dismissed"
          /\ signals' = Append(signals, "dismissed") ]_vars

\* C15: the append hint of a handle is "append" if the service advertises it,
\* else "x-canonical-append" if the service advertises that, else none; at most
\* one hint is set, and the tag plays no part in the choice.
C15_AppendHintPreference ==
  Len(handles) > 0 =>
    /\ config.hints =
         IF "append" \in lastShow.caps THEN {"append"}
         ELSE IF "x-canonical-append" \in lastShow.caps
              THEN {"x-canonical-append"}
              ELSE {}
    /\ Cardinality(config.hints) <= 1
    /\ CallCount(config.calls, "notify_notification_set_hint_string")
         = Cardinality(config.hints)

\* Both names advertised and an empty tag: only "append" is set.
C15_Witness ==
  /\ Len(handles) > 0
  /\ lastShow.caps = {"actions", "append", "x-canonical-append"}
  /\ lastShow.tag = ""
  /\ config.hints = {"append"}

\* C16: notify_has_result is never set, so every call of
\* NotifierSupportsActions without the override asks the service again and
\* returns whether "actions" is advertised at that call, also when an earlier
\* call saw another set.
C16_ActionSupportRecomputed ==
  [][ /\ ~notify_has_result'
      /\ (ShowStep /\ ~envFlag) =>
           /\ supportsRet' = IF "actions" \in serverCaps THEN "true" ELSE "false"
           /\ notify_result' = ("actions" \in serverCaps) ]_vars

\* The first call found "actions", the second call did not.
C16_Witness ==
  /\ ~envFlag /\ Len(handles) = 2
  /\ handles[1].action /\ ~handles[2].action
  /\ "actions" \notin lastShow.caps
  /\ supportsRet = "false" /\ ~notify_has_result

\* The calls of Show that register a callback on the handle or configure it.
SetupCalls ==
  { "g_signal_connect", "notify_notification_add_action",
    "notify_notification_set_image_from_pixbuf",
    "notify_notification_set_timeout", "g_object_set",
    "notify_notification_set_hint_string" }

DelegateCalls == { "NotificationDisplayed", "NotificationFailed" }

\* C17: Show creates the handle, connects the closed callback and makes every
\* configuration call before the one submission; no such call follows the
\* submission, and the delegate call comes only after the submission returned.
C17_ConfigureBeforeSubmit ==
  Len(handles) > 0 =>
    LET c == config.calls
        k == CHOOSE i \in 1..Len(c) : c[i] = "notify_notification_show"
    IN /\ CallCount(c, "notify_notification_show") = 1
       /\ c[1] = "notify_notification_new"
       /\ c[2] = "g_signal_connect"
       /\ \A i \in 1..Len(c) : c[i] \in SetupCalls => i < k
       /\ \A i \in 1..Len(c) : c[i] \in DelegateCalls => i > k
       /\ Len(c) = k + 1
       /\ c[k + 1] = IF handles[Len(handles)].srv = "none"
                     THEN "NotificationFailed" ELSE "NotificationDisplayed"

\* A Show that made every optional call.
C17_Witness ==
  /\ Len(handles) > 0
  /\ config.calls =
       << "notify_notification_new", "g_signal_connect",
          "notify_notification_add_action",
          "notify_notification_set_image_from_pixbuf",
          "notify_notification_set_timeout", "g_object_set",
          "notify_notification_set_hint_string",
          "notify_notification_show", "NotificationDisplayed" >>

\* C18: Show attaches an image and sets the default expiry exactly when the
\* icon draws something, and assigns an identity exactly when the tag is not
\* empty; with an empty icon the expiry is untouched, with an empty tag no
\* identity is assigned.
C18_ImageAndIdentityConditions ==
  Len(handles) > 0 =>
    /\ config.image # 0 <=> lastShow.icon # 0
    /\ config.timeout = "NOTIFY_EXPIRES_DEFAULT" <=> lastShow.icon # 0
    /\ lastShow.icon = 0 => config.timeout = "unset"
    /\ config.id # 0 <=> lastShow.tag # ""
    /\ CallCount(config.calls, "notify_notification_set_image_from_pixbuf")
         = IF lastShow.icon # 0 THEN 1 ELSE 0
    /\ CallCount(config.calls, "notify_notification_set_timeout")
         = IF lastShow.icon # 0 THEN 1 ELSE 0
    /\ CallCount(config.calls, "g_object_set")
         = IF lastShow.tag # "" THEN 1 ELSE 0

\* An empty icon with a tag: identity assigned, no image, expiry untouched.
C18_Witness ==
  /\ Len(handles) > 0
  /\ lastShow.icon = 0 /\ lastShow.tag = "ci-status"
  /\ config.image = 0 /\ config.timeout = "unset" /\ config.id # 0

\* C19: every native handle created by Show is released exactly once: none is
\* released twice, and none is left unreleased once the notification is
\* destroyed, also when Show was called more than once.
C19_EveryHandleReleasedOnce ==
  /\ \A h \in 1..Len(handles) : handles[h].refs \in {0, 1}
  /\ obj = "deleted" => \A h \in 1..Len(handles) : handles[h].refs = 0

\* What a Show with the arguments and service answers of the last Show, but
\* with the flag silent, leaves in config.
ConfigWithSilent(silent) ==
  [ ShowConfig(lastShow.title, lastShow.body, lastShow.tag, lastShow.icon,
               silent, handles[Len(handles)].action, lastShow.caps)
    EXCEPT !.calls =
      Append(@, ShowDelegateCall(handles[Len(handles)].srv = "none")) ]

\* C20: the silent flag has no effect on Show: the handle the last Show
\* configured and the delegate call it made are those of the same Show with
\* either value of silent.
C20_SilentIgnored ==
  Len(handles) > 0 =>
    /\ config = ConfigWithSilent(TRUE)
    /\ config = ConfigWithSilent(FALSE)

\* A Show with silent set, an icon and a tag, that was displayed.
C20_Witness ==
  /\ Len(handles) = 1 /\ lastShow.silent
  /\ lastShow.icon # 0 /\ lastShow.tag # ""
  /\ signals = << "displayed" >>
  /\ config = ConfigWithSilent(FALSE)

====
